---- MODULE Spec2Model ----
(***************************************************************************)
(* Model of python_integration/mypython.py (gen_random_values) and of      *)
(* python_integration/ui_py.py (class App, a wrapper around a Tk root      *)
(* window with one kind of button whose command is App.click).             *)
(***************************************************************************)
EXTENDS Integers, Sequences, FiniteSets, TLC

VARIABLES
    rng,        \* state of numpy's global random source
    base,       \* the base the host passes to gen_random_values
    genOp,      \* the last call of gen_random_values: [called, size, base]
    genResult,  \* what that call returned: [returned, shape, data]
    genErr,     \* what that call raised: "none" or "ValueError"
    toplevels,  \* number of Tk root windows the App made (self._root)
    geometry,   \* geometry of the root window: [kind, w, h]
    clicked,    \* self.clicked
    buttons,    \* the button widgets placed in the root, in creation order
    pending,    \* Tk event queue: button presses not yet dispatched
    created,    \* history: create() has returned normally
    nclick,     \* history: invocations of the click callback (saturating)
    op,         \* the last operation or event: [name, arg, events]
    err         \* what that operation raised: "none" or "TclError"

genVars == <<rng, base, genOp, genResult, genErr>>
appVars == <<toplevels, geometry, clicked, buttons, pending,
             created, nclick, op, err>>
vars == <<rng, base, genOp, genResult, genErr,
          toplevels, geometry, clicked, buttons, pending,
          created, nclick, op, err>>

----------------------------------------------------------------------------
(* Bounds of the model *)

MaxButtons == 2     \* buttons created at most
MaxPending == 2     \* button presses waiting in the event queue at most
MaxResLen == 3      \* length of a resolution string at most
MaxCount == 2       \* where the count of click invocations saturates

----------------------------------------------------------------------------
(* mypython.py *)

PrecBits == 3       \* bits of a float's significand (53 in a float64)
GuardBits == 1      \* bits of resolution below that of the random values
MaxSize == 2        \* size argument at most (and -1 at least)

RECURSIVE Pow2(_)
Pow2(n) == IF n = 0 THEN 1 ELSE 2 * Pow2(n - 1)

\* Numbers are integers counting units of 2^-(PrecBits + GuardBits).
One == Pow2(PrecBits + GuardBits)

RECURSIVE Log2(_)
Log2(n) == IF n < 2 THEN 0 ELSE 1 + Log2(n \div 2)

\* round-to-nearest, ties-to-even, to PrecBits significant bits
RoundPos(n) ==
    IF n < Pow2(PrecBits) THEN n
    ELSE LET q == Pow2(Log2(n) - PrecBits + 1)
             lo == (n \div q) * q
             rem == n - lo
         IN IF 2 * rem < q THEN lo
            ELSE IF 2 * rem > q THEN lo + q
            ELSE IF (lo \div q) % 2 = 0 THEN lo ELSE lo + q

Round(n) == IF n < 0 THEN -RoundPos(-n) ELSE RoundPos(n)

\* float addition, the elementwise + of random_array + base
FSub(a, b) == Round(a - b)
FAdd(a, b) == Round(a + b)

Representable(n) == Round(n) = n

MaxBase == Pow2(PrecBits) * One
Bases == {n \in -MaxBase..MaxBase : Representable(n)}
Sizes == -1..MaxSize

\* numpy's global random source: a deterministic generator whose state
\* every draw advances; a draw is k / 2^PrecBits with 0 <= k < 2^PrecBits
RngMod == Pow2(PrecBits + 1)
NextRng(s) == (5 * s + 3) % RngMod
Output(s) == (s \div 2) * Pow2(GuardBits)

RECURSIVE Draws(_, _)
Draws(s, n) ==
    IF n = 0 THEN <<>>
    ELSE <<Output(NextRng(s))>> \o Draws(NextRng(s), n - 1)

RECURSIVE RngAfter(_, _)
RngAfter(s, n) == IF n = 0 THEN s ELSE RngAfter(NextRng(s), n - 1)

NoArray == [returned |-> FALSE, shape |-> <<0, 0>>, data |-> <<>>]

\* np.random.rand(d0, d1): ValueError on a negative dimension, otherwise a
\* d0 x d1 array filled in row-major order from the global random source
randRejectingZero(s, d0, d1) ==
    IF d0 <= 0 \/ d1 <= 0
    THEN [err |-> "ValueError", array |-> NoArray, rng |-> s]
    ELSE LET ds == Draws(s, d0 * d1)
         IN [err |-> "none",
             array |-> [returned |-> TRUE, shape |-> <<d0, d1>>,
                        data |-> [i \in 1..d0 |->
                                   [j \in 1..d1 |-> ds[(i - 1) * d1 + j]]]],
             rng |-> RngAfter(s, d0 * d1)]
randRestoring(s, d0, d1) ==
    IF d0 < 0 \/ d1 < 0
    THEN [err |-> "ValueError", array |-> NoArray, rng |-> s]
    ELSE LET ds == Draws(s, d0 * d1)
         IN [err |-> "none",
             array |-> [returned |-> TRUE, shape |-> <<d0, d1>>,
                        data |-> [i \in 1..d0 |->
                                   [j \in 1..d1 |-> ds[(i - 1) * d1 + j]]]],
             rng |-> s]
rand(s, d0, d1) ==
    IF d0 < 0 \/ d1 < 0
    THEN [err |-> "ValueError", array |-> NoArray, rng |-> s]
    ELSE LET ds == Draws(s, d0 * d1)
         IN [err |-> "none",
             array |-> [returned |-> TRUE, shape |-> <<d0, d1>>,
                        data |-> [i \in 1..d0 |->
                                   [j \in 1..d1 |-> ds[(i - 1) * d1 + j]]]],
             rng |-> RngAfter(s, d0 * d1)]

\* def gen_random_values(size, base):
\*     random_array = np.random.rand(size, size)
\*     return random_array + base
gen_random_values(s, size, b) ==
    LET r == rand(s, size, size)
    IN IF r.err # "none" THEN r
       ELSE [r EXCEPT !.array.data =
                [i \in 1..size |->
                    [j \in 1..size |-> FAdd(r.array.data[i][j], b)]]]

\* the generator before any call; the random source is seeded from the
\* system's entropy
Seeded == rng \in 0..(RngMod - 1)

GenIdle ==
    /\ base \in Bases
    /\ genOp = [called |-> FALSE, size |-> 0, base |-> 0]
    /\ genResult = NoArray
    /\ genErr = "none"

\* one call, with any size and the host's base
GenCall ==
    \E size \in Sizes :
        LET r == gen_random_values(rng, size, base)
        IN /\ genOp' = [called |-> TRUE, size |-> size, base |-> base]
           /\ genResult' = r.array
           /\ genErr' = r.err
           /\ rng' = r.rng
           /\ UNCHANGED base

GenNext == GenCall /\ UNCHANGED appVars

----------------------------------------------------------------------------
(* ui_py.py *)

Greeting == "Hello Mojo!"
Texts == {Greeting, "OK"}
Chars == {"8", "x"}

ResStrings == UNION {[1..n -> Chars] : n \in 0..MaxResLen}

DigitVal(c) == IF c = "8" THEN 8 ELSE 0

RECURSIVE Decimal(_)
Decimal(s) ==
    IF s = <<>> THEN 0
    ELSE 10 * Decimal(SubSeq(s, 1, Len(s) - 1)) + DigitVal(s[Len(s)])

Natural == [kind |-> "natural", w |-> 0, h |-> 0]
BadGeometry == [kind |-> "bad", w |-> 0, h |-> 0]

\* Tk's geometry parser on "WIDTHxHEIGHT": "" resets to the natural size,
\* digits 'x' digits gives the size, anything else is a bad specifier.
ParseGeometry(res) ==
    IF res = <<>> THEN Natural
    ELSE LET xs == {i \in 1..Len(res) : res[i] = "x"}
         IN IF Cardinality(xs) = 1
            THEN LET i == CHOOSE k \in xs : TRUE
                 IN IF i > 1 /\ i < Len(res)
                    THEN [kind |-> "size",
                          w |-> Decimal(SubSeq(res, 1, i - 1)),
                          h |-> Decimal(SubSeq(res, i + 1, Len(res)))]
                    ELSE BadGeometry
            ELSE BadGeometry

ValidGeometry(res) == ParseGeometry(res).kind # "bad"

\* def click(self): self.clicked = True
clickToggle(c) == ~c
click(c) == TRUE

\* tk.Button(self._root, text=button_text, command=self.click), placed at
\* the centre of the root
NewButtonFixedLabel(button_text) ==
    [text |-> Greeting, command |-> "click",
     relx |-> "0.5", rely |-> "0.5", anchor |-> "center"]
NewButtonNoCommand(button_text) ==
    [text |-> button_text, command |-> "none",
     relx |-> "0.5", rely |-> "0.5", anchor |-> "center"]
NewButton(button_text) ==
    [text |-> button_text, command |-> "click",
     relx |-> "0.5", rely |-> "0.5", anchor |-> "center"]

\* the children of the root after one more button is made
PlaceReplacing(bs, b) == <<b>>
Place(bs, b) == Append(bs, b)

\* one pass over the event queue: each press invokes its button's command
RECURSIVE Dispatch(_, _, _)
Dispatch(c, q, bs) ==
    IF q = <<>> THEN c
    ELSE Dispatch(IF bs[Head(q)].command = "click" THEN click(c) ELSE c,
                  Tail(q), bs)

\* the presses in the queue that invoke click
Invocations(q, bs) ==
    Cardinality({i \in 1..Len(q) : bs[q[i]].command = "click"})

Saturate(n) == IF n > MaxCount THEN MaxCount ELSE n

Op(name, arg, events) == [name |-> name, arg |-> arg, events |-> events]

\* __init__: self._root = tk.Tk(); self.clicked = False
InitClickedSet == TRUE
InitClicked == FALSE

AppInit ==
    /\ toplevels = 1
    /\ geometry = Natural
    /\ clicked = InitClicked
    /\ buttons = <<>>
    /\ pending = <<>>
    /\ created = FALSE
    /\ nclick = 0
    /\ op = Op("__init__", <<>>, 0)
    /\ err = "none"

ClickFlushing ==
    /\ clicked' = click(clicked)
    /\ nclick' = Saturate(nclick + 1)
    /\ pending' = <<>>
    /\ op' = Op("click", <<>>, 0)
    /\ err' = "none"
    /\ UNCHANGED <<toplevels, geometry, buttons, created>>
Click ==
    /\ clicked' = click(clicked)
    /\ nclick' = Saturate(nclick + 1)
    /\ op' = Op("click", <<>>, 0)
    /\ err' = "none"
    /\ UNCHANGED <<toplevels, geometry, buttons, pending, created>>

CreateButton ==
    \E t \in Texts :
        /\ Len(buttons) < MaxButtons
        /\ buttons' = Place(buttons, NewButton(t))
        /\ op' = Op("create_button", <<t>>, 0)
        /\ err' = "none"
        /\ UNCHANGED <<toplevels, geometry, clicked, pending, created, nclick>>

\* create: geometry(res) raises on a bad specifier, before any button is made
Create ==
    \E res \in ResStrings :
        /\ op' = Op("create", res, 0)
        /\ IF ValidGeometry(res)
           THEN /\ Len(buttons) < MaxButtons
                /\ geometry' = ParseGeometry(res)
                /\ buttons' = Place(buttons, NewButton(Greeting))
                /\ created' = TRUE
                /\ err' = "none"
           ELSE /\ err' = "TclError"
                /\ UNCHANGED <<geometry, buttons, created>>
        /\ UNCHANGED <<toplevels, clicked, pending, nclick>>

\* the user presses the button that is on top (the one created last)
Press ==
    /\ buttons # <<>>
    /\ Len(pending) < MaxPending
    /\ pending' = Append(pending, Len(buttons))
    /\ op' = Op("press", <<>>, 0)
    /\ UNCHANGED <<toplevels, geometry, clicked, buttons, created, nclick, err>>

\* update: self._root.update() processes every pending event
UpdateNoDispatch ==
    /\ pending' = <<>>
    /\ op' = Op("update", <<>>, Len(pending))
    /\ err' = "none"
    /\ UNCHANGED <<toplevels, geometry, clicked, buttons, created, nclick>>
Update ==
    /\ clicked' = Dispatch(clicked, pending, buttons)
    /\ nclick' = Saturate(nclick + Invocations(pending, buttons))
    /\ pending' = <<>>
    /\ op' = Op("update", <<>>, Len(pending))
    /\ err' = "none"
    /\ UNCHANGED <<toplevels, geometry, buttons, created>>

----------------------------------------------------------------------------
(* Specifications *)

\* the App, driven by its host and its user
Init == AppInit /\ GenIdle /\ rng = 0 /\ base = 0

Next ==
    \/ Click /\ UNCHANGED genVars
    \/ CreateButton /\ UNCHANGED genVars
    \/ Create /\ UNCHANGED genVars
    \/ Press /\ UNCHANGED genVars
    \/ Update /\ UNCHANGED genVars

Spec == Init /\ [][Next]_vars

\* the host calls update() on every iteration of its loop
FairSpec == Spec /\ WF_vars(Update /\ UNCHANGED genVars)

\* the generator, called again and again with every size, for every base
\* and from any seed
InitGen == AppInit /\ GenIdle /\ Seeded

SpecGen == InitGen /\ [][GenNext]_vars

----------------------------------------------------------------------------
(* Claims about gen_random_values *)

Called == genOp.called
Elems == {genResult.data[i][j] : i \in 1..genOp.size, j \in 1..genOp.size}

IsSquare(n) ==
    /\ genErr = "none"
    /\ genResult.returned
    /\ genResult.shape = <<n, n>>
    /\ Len(genResult.data) = n
    /\ \A i \in 1..n : Len(genResult.data[i]) = n

\* C1 as the claim states it: for size > 0 the result is size x size and
\* every element v satisfies base <= v < base + 1.
C1_Original ==
    (Called /\ genOp.size > 0) =>
        /\ IsSquare(genOp.size)
        /\ \A v \in Elems : genOp.base <= v /\ v < genOp.base + One

\* C1, amended: for size > 0 the result is size x size and every element v
\* satisfies base <= v <= base + 1, both exactly and with base + 1 rounded
\* as a float; v = base + 1 happens when the float sum rounds up.
C1_Amended ==
    (Called /\ genOp.size > 0) =>
        /\ IsSquare(genOp.size)
        /\ \A v \in Elems :
              /\ genOp.base <= v
              /\ v <= genOp.base + One
              /\ v <= Round(genOp.base + One)

C1_Witness ==
    /\ Called
    /\ genOp.size > 1
    /\ genResult.returned
    /\ \E v \in Elems : v = genOp.base + One
    /\ \E v \in Elems : v < genOp.base + One

\* C6 as the claim states it: a call with size <= 0 fails with an error and
\* never returns an array.
C6_Original ==
    (Called /\ genOp.size <= 0) => (genErr # "none" /\ ~genResult.returned)

\* C6, amended: a call with size < 0 fails with the ValueError numpy raises
\* and returns nothing; a call with size = 0 raises nothing and returns the
\* empty 0 x 0 array.
C6_Amended ==
    /\ (Called /\ genOp.size < 0) =>
          (genErr = "ValueError" /\ ~genResult.returned)
    /\ (Called /\ genOp.size = 0) =>
          (IsSquare(0) /\ genResult.data = <<>>)

C6_Witness == Called /\ genOp.size = 0 /\ genResult.returned

\* C8 as the claim states it: a call changes no state that outlives it, the
\* state of the random source included.
C8_Original == [][rng' = rng]_vars

\* C8, amended: the only state a call changes that outlives it is the state
\* of the global random source, which a call that returns a size x size
\* array advances by size * size draws (a failing call leaves it alone); so
\* a call with size > 0 changes what later calls return.
C8_Amended ==
    [][/\ genErr' = "none" => rng' = RngAfter(rng, genOp'.size * genOp'.size)
       /\ genOp'.size > 0 => rng' # rng
       /\ genErr' # "none" => rng' = rng
       /\ UNCHANGED appVars]_vars

C8_Witness == Called /\ genOp.size > 1 /\ genResult.returned

----------------------------------------------------------------------------
(* Claims about App *)

AppState == <<toplevels, geometry, clicked, buttons, pending>>
LastButton(bs) == bs[Len(bs)]

\* C2 as the claim states it: after create, an update raises no error and
\* leaves clicked unchanged, also when a press is pending.
C2_Original ==
    [][(created /\ op'.name = "update") =>
          (err' = "none" /\ clicked' = clicked)]_vars

\* C2, amended: after a create(res) that returned normally (res a valid
\* geometry string), an update raises no error; it leaves clicked unchanged
\* when no press is pending, and with a press pending it runs click, after
\* which clicked is true.
C2_Amended ==
    [][/\ (created /\ op'.name = "update") =>
             /\ err' = "none"
             /\ pending = <<>> => clicked' = clicked
             /\ pending # <<>> => clicked'
       /\ op'.name = "create" => (err' = "none" <=> ValidGeometry(op'.arg))
      ]_vars

C2_Witness ==
    created /\ op.name = "update" /\ op.events > 0 /\ clicked /\ nclick = 1

\* C3: once clicked is true it is true in every later state.
C3_OneDirectional == [][clicked => clicked']_vars

C3_Witness == clicked /\ op.name = "create" /\ Len(buttons) = 2

\* C4: a call of click leaves clicked true, and a call made when clicked is
\* already true leaves the state of the wrapper as it was.
C4_Idempotent ==
    [][op'.name = "click" =>
          (clicked' /\ (clicked => AppState' = AppState))]_vars

C4_Witness == op.name = "click" /\ clicked /\ nclick >= 2 /\ pending # <<>>

\* C5: clicked is false after construction and as long as the click callback
\* has not been invoked; create, create_button, a press and an update with
\* nothing pending do not change it.
C5_FalseUntilClick ==
    /\ (nclick = 0 => ~clicked)
    /\ (op.name = "__init__" => ~clicked)

C5_Witness ==
    /\ ~clicked
    /\ created
    /\ Len(buttons) = 2
    /\ op.name = "update"
    /\ op.events = 0

\* C7 as the claim states it: exactly one top-level window and at most one
\* button.
C7_Original == toplevels = 1 /\ Len(buttons) <= 1

\* C7, amended: exactly one top-level window; every create_button() and
\* every create() that returns normally adds one more button and no
\* operation removes one, so there are as many buttons as such calls.
C7_Amended ==
    /\ [](toplevels = 1)
    /\ [][IF op'.name = "create_button" \/ (op'.name = "create" /\ err' = "none")
          THEN buttons' = Append(buttons, LastButton(buttons'))
          ELSE buttons' = buttons]_vars

C7_Witness == toplevels = 1 /\ Len(buttons) = 2 /\ op.name = "create"

C10_Original == \A i \in 1..Len(buttons) : buttons[i].text = Greeting

\* C10, amended: the button made by create_button(t) carries t; the button
\* made by a create(res) that returns normally carries the fixed greeting.
C10_Amended ==
    [][/\ op'.name = "create_button" =>
             LastButton(buttons').text = op'.arg[1]
       /\ (op'.name = "create" /\ err' = "none") =>
             LastButton(buttons').text = Greeting]_vars

C10_Witness ==
    /\ op.name = "create_button"
    /\ op.arg = <<"OK">>
    /\ LastButton(buttons).text = "OK"
    /\ Len(buttons) = 2
    /\ buttons[1].text = Greeting
====
